---- MODULE Spec2Model ----
(***************************************************************************)
(* TimeTide API server (src/backend/server.js): the configuration read     *)
(* from the environment at start-up, and the middleware chain one request  *)
(* runs through: body parser, CORS (production only), session middleware,  *)
(* route dispatch, the built-in weather / health / not-found handlers and  *)
(* the terminal error handler.                                             *)
(*                                                                         *)
(* An optional value (an environment variable, a request header, a        *)
(* response header) is a sequence of length 0 (absent) or 1 (present).     *)
(* Text that the code splits, trims, parses or serialises is a sequence    *)
(* of characters or of JSON lexemes.                                       *)
(***************************************************************************)
EXTENDS Integers, Sequences, FiniteSets, TLC

\* Number of distinct session identifiers the model lets the server hand out.
MaxSessions == 2

VARIABLES env, dbState, store, pc, req, sess, res, outbound, upstream, fault

vars == <<env, dbState, store, pc, req, sess, res, outbound, upstream, fault>>

-----------------------------------------------------------------------------
(* Optional values and JavaScript truthiness of an optional string.        *)

Absent == <<>>

Present(v) == <<v>>

IsSet(o) == Len(o) = 1

\* !!process.env.X for a variable held as a string: undefined and '' are falsy.
Truthy(o) == IsSet(o) /\ o[1] # ""

\* !!process.env.X for a variable held as a sequence of characters.
TruthyText(o) == IsSet(o) /\ o[1] # <<>>

-----------------------------------------------------------------------------
(* Start-up configuration, server.js lines 16-41.                          *)

\* const NODE_ENV = process.env.NODE_ENV || 'development'
NODE_ENV == IF Truthy(env.NODE_ENV) THEN env.NODE_ENV[1] ELSE "development"

\* const FRONTEND_ORIGIN = process.env.FRONTEND_ORIGIN
FRONTEND_ORIGIN == env.FRONTEND_ORIGIN

\* mongoOpts after lines 27-41; a flag that was never assigned is FALSE here.
mongoOpts ==
    [ useNewUrlParser |-> TRUE,
      useUnifiedTopology |-> TRUE,
      tlsAllowInvalidCertificates |-> (env.MONGO_TLS_ALLOW_INVALID_CERT = Present("true")),
      tlsAllowInvalidHostnames |-> (env.MONGO_TLS_ALLOW_INVALID_HOSTNAME = Present("true")) ]

\* mongoose.connect(MONGO_URI, mongoOpts)
connectOptions == mongoOpts

\* MongoStore.create({ mongoUrl: MONGO_URI, mongoOptions: mongoOpts })
storeMongoOptions == mongoOpts

\* app.set('trust proxy', 1) in production only.
trustProxy == NODE_ENV = "production"

-----------------------------------------------------------------------------
(* String helpers used by the CORS configuration: split(',') and trim().   *)

RECURSIVE IndexOf(_, _, _)
\* The first index >= i of character c in s, or 0.
IndexOf(s, c, i) ==
    IF i > Len(s) THEN 0
    ELSE IF s[i] = c THEN i
    ELSE IndexOf(s, c, i + 1)

RECURSIVE Split(_, _)
\* String.prototype.split(c): "a,,b" gives three entries, the middle one empty.
Split(s, c) ==
    LET i == IndexOf(s, c, 1)
    IN  IF i = 0 THEN << s >>
        ELSE << SubSeq(s, 1, i - 1) >> \o Split(SubSeq(s, i + 1, Len(s)), c)

RECURSIVE TrimLeft(_)
TrimLeft(s) ==
    IF s # <<>> /\ Head(s) = " " THEN TrimLeft(Tail(s)) ELSE s

RECURSIVE TrimRight(_)
TrimRight(s) ==
    IF s # <<>> /\ s[Len(s)] = " " THEN TrimRight(SubSeq(s, 1, Len(s) - 1)) ELSE s

\* String.prototype.trim()
Trim(s) == TrimRight(TrimLeft(s))

-----------------------------------------------------------------------------
(* JSON text as a sequence of lexemes, and what response.json() (a parse)  *)
(* followed by res.json() (a JSON.stringify) does to it.                   *)

Whitespace == " "

NumberLexemes == {"0", "1", "1.0", "21.5", "-0", "1e400"}

StringLexemes == {"\"temp\"", "\"main\""}

SyntaxError == [t |-> "SyntaxError"]

\* The IEEE double a number lexeme denotes, named by its shortest form.
NumberValue(lex) ==
    CASE lex = "0"     -> "0"
      [] lex = "1"     -> "1"
      [] lex = "1.0"   -> "1"
      [] lex = "21.5"  -> "21.5"
      [] lex = "-0"    -> "-0"
      [] lex = "1e400" -> "Infinity"

IsScalarLexeme(lex) == lex \in NumberLexemes \cup StringLexemes \cup {"null"}

ParseScalar(lex) ==
    IF lex \in NumberLexemes THEN [t |-> "num", n |-> NumberValue(lex)]
    ELSE IF lex \in StringLexemes THEN [t |-> "str", s |-> lex]
    ELSE [t |-> "null"]

RECURSIVE PutMember(_, _, _, _)
\* obj[k] = v on an insertion-ordered object: a repeated key keeps its
\* first position and takes the last value.
PutMember(m, k, v, i) ==
    IF i > Len(m) THEN Append(m, [k |-> k, v |-> v])
    ELSE IF m[i].k = k THEN [m EXCEPT ![i] = [k |-> k, v |-> v]]
    ELSE PutMember(m, k, v, i + 1)

ParseFail == [ok |-> FALSE, v |-> SyntaxError, next |-> 0]

RECURSIVE ParseValue(_, _)
RECURSIVE ParseMembers(_, _, _)

\* The JSON value starting at lexeme i of ts: [ok, v, next].
ParseValue(ts, i) ==
    IF i > Len(ts) THEN ParseFail
    ELSE IF IsScalarLexeme(ts[i]) THEN [ok |-> TRUE, v |-> ParseScalar(ts[i]), next |-> i + 1]
    ELSE IF ts[i] = "{" THEN
        IF i + 1 <= Len(ts) /\ ts[i + 1] = "}"
        THEN [ok |-> TRUE, v |-> [t |-> "obj", m |-> <<>>], next |-> i + 2]
        ELSE ParseMembers(ts, i + 1, <<>>)
    ELSE ParseFail

\* key : value ( , key : value )* } starting at lexeme i.
ParseMembers(ts, i, acc) ==
    IF i + 2 > Len(ts) \/ ts[i] \notin StringLexemes \/ ts[i + 1] # ":" THEN ParseFail
    ELSE LET r == ParseValue(ts, i + 2)
         IN  IF ~r.ok \/ r.next > Len(ts) THEN ParseFail
             ELSE LET acc2 == PutMember(acc, ts[i], r.v, 1)
                  IN  IF ts[r.next] = "}"
                      THEN [ok |-> TRUE, v |-> [t |-> "obj", m |-> acc2], next |-> r.next + 1]
                      ELSE IF ts[r.next] = ","
                      THEN ParseMembers(ts, r.next + 1, acc2)
                      ELSE ParseFail

\* JSON.parse(text), SyntaxError when the text is not one JSON value.
JSONparse(text) ==
    LET ts == SelectSeq(text, LAMBDA l : l # Whitespace)
        r  == ParseValue(ts, 1)
    IN  IF r.ok /\ r.next = Len(ts) + 1 THEN r.v ELSE SyntaxError

RECURSIVE JSONstringify(_)
RECURSIVE StringifyMembers(_, _)

\* JSON.stringify(v) with no replacer and no indentation.
JSONstringify(v) ==
    CASE v.t = "num"  -> IF v.n = "Infinity" THEN <<"null">>
                         ELSE IF v.n = "-0" THEN <<"0">>
                         ELSE << v.n >>
      [] v.t = "str"  -> << v.s >>
      [] v.t = "null" -> <<"null">>
      [] v.t = "obj"  -> <<"{">> \o StringifyMembers(v.m, 1) \o <<"}">>

StringifyMembers(m, i) ==
    IF i > Len(m) THEN <<>>
    ELSE (IF i > 1 THEN <<",">> ELSE <<>>)
         \o << m[i].k, ":" >> \o JSONstringify(m[i].v)
         \o StringifyMembers(m, i + 1)

-----------------------------------------------------------------------------
(* Requests, responses and the values they carry.                          *)

SIDs == 1 .. MaxSessions

Methods == {"GET", "POST", "OPTIONS"}

\* Request paths as segment sequences: /api/auth/login is <<"api","auth","login">>.
ReqPaths ==
    { <<"api", "auth", "login">>, <<"api", "weather">>, <<"api", "health">>,
      <<"api", "unknown">> }

\* Values of the Origin request header, as character sequences.
Origins == { <<"a">>, <<"b">> }

NoCookie == [kind |-> "none", sid |-> 0]

NoBody == [kind |-> "none", error |-> "", message |-> "", status |-> "", text |-> <<>>]

JsonBody(error, message, status) ==
    [kind |-> "json", error |-> error, message |-> message, status |-> status, text |-> <<>>]

\* A response whose body is the serialised JSON text itself.
TextBody(text) ==
    [kind |-> "json", error |-> "", message |-> "", status |-> "", text |-> text]

HtmlBody(message) ==
    [kind |-> "html", error |-> "", message |-> message, status |-> "", text |-> <<>>]

NoReq ==
    [method |-> "", path |-> <<>>, origin |-> Absent, cookie |-> NoCookie,
     proto |-> "http"]

NoSess == [exists |-> FALSE, id |-> 0, cookieId |-> 0, modified |-> FALSE]

NoRes == [status |-> 0, body |-> NoBody, setCookie |-> Absent, acao |-> Absent, sent |-> 0]

NoUpstream == [outcome |-> "none", status |-> 0, body |-> <<>>]

-----------------------------------------------------------------------------
(* Session middleware configuration, server.js lines 72-85.                *)

\* resave: false
resave == FALSE

\* saveUninitialized: true, the setting that stores and announces every new
\* session.
saveUninitializedTrue == TRUE

\* saveUninitialized: false
saveUninitialized == FALSE

\* rolling is not given: the library default.
rolling == FALSE

\* cookie.secure: NODE_ENV === 'production'
CookieSecure == NODE_ENV = "production"

\* The attribute taken from the raw variable, as the error handler reads
\* the mode.
CookieSameSiteRawEnv == IF env.NODE_ENV # Present("development") THEN "none" ELSE "lax"

\* cookie.sameSite: NODE_ENV === 'production' ? 'none' : 'lax'
CookieSameSite == IF NODE_ENV = "production" THEN "none" ELSE "lax"

\* cookie.maxAge: 1000 * 60 * 60 * 24
CookieMaxAge == 1000 * 60 * 60 * 24

\* The session ID the signed cookie of the request yields; 0 when the cookie
\* is missing or its signature does not verify.
GetCookie(r) == IF r.cookie.kind = "signed" THEN r.cookie.sid ELSE 0

\* req.secure as the session middleware sees it: the server listens on plain
\* HTTP, so only a trusted X-Forwarded-Proto makes a request secure.
IsSecure(r) == trustProxy /\ r.proto = "https"

IsModified(s) == s.modified

\* shouldSetCookie of the session middleware; cookie.expires is set (maxAge).
ShouldSetCookie(s) ==
    IF s.cookieId # s.id
    THEN saveUninitialized \/ IsModified(s)
    ELSE rolling \/ IsModified(s)

\* shouldSave of the session middleware.
ShouldSave(s) ==
    IF ~saveUninitialized /\ s.cookieId # s.id THEN IsModified(s)
    ELSE IF s.cookieId # s.id THEN TRUE
    ELSE resave \/ IsModified(s)

\* The Set-Cookie header written when the response headers go out, for
\* session s (only a secure request gets a secure cookie).
CookieToSet(s) ==
    IF s.exists /\ ShouldSetCookie(s) /\ (CookieSecure => IsSecure(req))
    THEN Present([sid |-> s.id, secure |-> CookieSecure,
                  sameSite |-> CookieSameSite, maxAge |-> CookieMaxAge])
    ELSE Absent

\* Sending a response with session s: the headers hook sets the cookie, the
\* end hook saves the session (the save reaches the store only while the
\* database is up).
Respond(s, status, body) ==
    /\ res' = [res EXCEPT !.status = status, !.body = body,
                          !.setCookie = CookieToSet(s), !.sent = @ + 1]
    /\ store' = IF s.exists /\ ShouldSave(s) /\ dbState = "connected"
                THEN store \cup {s.id} ELSE store
    /\ pc' = "done"

-----------------------------------------------------------------------------
(* CORS configuration, server.js lines 62-69.                              *)

\* if (NODE_ENV === 'production') app.use(cors(corsOptions))
CorsInstalled == NODE_ENV = "production"

\* The option with true in place of false: every origin is reflected when
\* no list is configured.
CorsOriginDefaultTrue ==
    IF TruthyText(FRONTEND_ORIGIN)
    THEN LET parts == Split(FRONTEND_ORIGIN[1], ",")
         IN  [kind |-> "list", list |-> [i \in 1 .. Len(parts) |-> Trim(parts[i])]]
    ELSE [kind |-> "true", list |-> <<>>]

\* origin: FRONTEND_ORIGIN ? FRONTEND_ORIGIN.split(',').map(v => v.trim()) : false
\* kind "list" is an array of allowed origins, "false" the boolean false and
\* "true" the boolean true.
CorsOrigin ==
    IF TruthyText(FRONTEND_ORIGIN)
    THEN LET parts == Split(FRONTEND_ORIGIN[1], ",")
         IN  [kind |-> "list", list |-> [i \in 1 .. Len(parts) |-> Trim(parts[i])]]
    ELSE [kind |-> "false", list |-> <<>>]

\* isOriginAllowed of the cors middleware: an array allows the origins equal
\* to one of its entries; a boolean allows all or none.
IsOriginAllowed(origin, allowed) ==
    CASE allowed.kind = "list" ->
            IsSet(origin) /\ \E i \in 1 .. Len(allowed.list) : allowed.list[i] = origin[1]
      [] allowed.kind = "true"  -> TRUE
      [] allowed.kind = "false" -> FALSE

\* The Access-Control-Allow-Origin header the cors middleware writes.
AllowOriginHeader(origin, allowed) ==
    IF IsOriginAllowed(origin, allowed) THEN origin ELSE Absent

-----------------------------------------------------------------------------
(* Route table, server.js lines 88-130, in registration order.             *)

MountedPrefixes ==
    { <<"api", "auth">>, <<"api", "sessions">>, <<"api", "onboarding">>,
      <<"api", "leaderboard">>, <<"api", "progress">> }

\* app.use(prefix, router) matches the prefix and everything below it.
IsMounted(path) ==
    \E p \in MountedPrefixes : Len(path) >= Len(p) /\ SubSeq(path, 1, Len(p)) = p

\* The handler a request is dispatched to.  app.get registers GET only, so a
\* request of another method that no router takes falls to the framework's
\* final handler.
Dispatch(method, path) ==
    IF IsMounted(path) THEN "collaborator"
    ELSE IF method = "GET" /\ path = <<"api", "weather">> THEN "weather"
    ELSE IF method = "GET" /\ path = <<"api", "health">> THEN "health"
    ELSE IF method = "GET" THEN "notfound"
    ELSE "final"

-----------------------------------------------------------------------------
(* Weather gateway, server.js lines 95-114.                                *)

\* The check against undefined only, which lets an empty key through.
ApiKeyUndefined == env.OPENWEATHER_API_KEY = Absent

\* if (!apiKey)
ApiKeyMissing == ~Truthy(env.OPENWEATHER_API_KEY)

\* The status check without its upper end.
ResponseOkNoUpperEnd(status) == status >= 200

\* response.ok : a status in 200..299
ResponseOk(status) == status >= 200 /\ status <= 299

\* res.json(response.json()) without the await: a pending promise
\* serialises as the empty object.
RelayBodyUnawaited(data) == <<"{", "}">>

\* res.json(data): the serialised value the client receives.
RelayBody(data) == JSONstringify(data)

WeatherFailure == JsonBody("Failed to fetch weather data", "", "")

UpstreamStatuses == {200, 201, 404}

UpstreamBodies ==
    { <<"{", "\"temp\"", ":", "21.5", "}">>,
      <<"{", " ", "\"temp\"", ":", " ", "21.5", " ", "}">>,
      <<"{", "\"main\"", ":", "{", "\"temp\"", ":", "1", "}", "}">>,
      <<"{", "\"temp\"", ":", "1.0", "}">>,
      <<"{", "\"temp\"", ":", "1e400", "}">>,
      <<"{", "\"temp\"", ":", "1", ",", "\"temp\"", ":", "-0", "}">>,
      <<"null">>,
      <<>>,
      <<"{", "\"temp\"", ":", "1", ",", "}">>,
      <<"<html>">> }

\* What the outbound call can come back with: a transport failure, or a
\* status and a body.
UpstreamResults ==
    { [outcome |-> "reject", status |-> 0, body |-> <<>>] }
    \cup [outcome : {"response"}, status : UpstreamStatuses, body : UpstreamBodies]

-----------------------------------------------------------------------------
(* The environment the process starts in.                                  *)

NodeEnvs == { Absent, Present("development"), Present("production"), Present("test") }

FrontendOrigins ==
    { Absent, Present(<<"a">>), Present(<<"a", ",", " ", "b">>), Present(<<" ", "b", " ">>) }

ApiKeys == { Absent, Present(""), Present("k") }

TlsFlags == { Absent, Present("true"), Present("false") }

\* Environments of the request runs: the TLS flags are left unset, and the
\* origin list, which only production reads, takes all its values there.
Environments ==
    { e \in [ NODE_ENV : NodeEnvs,
              FRONTEND_ORIGIN : FrontendOrigins,
              OPENWEATHER_API_KEY : ApiKeys,
              MONGO_TLS_ALLOW_INVALID_CERT : {Absent},
              MONGO_TLS_ALLOW_INVALID_HOSTNAME : {Absent} ] :
        e.NODE_ENV # Present("production")
            => e.FRONTEND_ORIGIN \in {Absent, Present(<<"a">>)} }

\* Environments of the connection-option runs: every mode with every value
\* of the two TLS flags.
TlsEnvironments ==
    [ NODE_ENV : NodeEnvs,
      FRONTEND_ORIGIN : {Present(<<"a">>)},
      OPENWEATHER_API_KEY : {Present("k")},
      MONGO_TLS_ALLOW_INVALID_CERT : TlsFlags,
      MONGO_TLS_ALLOW_INVALID_HOSTNAME : TlsFlags ]

\* The state once the module has loaded: nothing connected, nothing stored,
\* no request in hand.
Started ==
    /\ dbState = "connecting"
    /\ store = {}
    /\ pc = "idle"
    /\ req = NoReq
    /\ sess = NoSess
    /\ res = NoRes
    /\ outbound = 0
    /\ upstream = NoUpstream
    /\ fault = Absent

Init == env \in Environments /\ Started

InitTls == env \in TlsEnvironments /\ Started

-----------------------------------------------------------------------------
(* Persistence connector, server.js lines 43-51, and the session store's   *)
(* records.                                                                *)

\* mongoose.connection 'connected'
DbConnected ==
    /\ dbState # "connected"
    /\ dbState' = "connected"
    /\ UNCHANGED <<env, store, pc, req, sess, res, outbound, upstream, fault>>

\* mongoose.connection 'error': logged, the process keeps running.
DbError ==
    /\ dbState # "error"
    /\ dbState' = "error"
    /\ UNCHANGED <<env, store, pc, req, sess, res, outbound, upstream, fault>>

\* A stored session record passes its 24 hours (or is destroyed).
Expire ==
    /\ \E sid \in store : store' = store \ {sid}
    /\ UNCHANGED <<env, dbState, pc, req, sess, res, outbound, upstream, fault>>

-----------------------------------------------------------------------------
(* One request through the middleware chain.                               *)

\* The cookies a client can present: none, one whose signature does not
\* verify, or a signed one.  A signed cookie names a stored session, or one
\* that has expired since it was issued.
Cookies ==
    { NoCookie, [kind |-> "badsig", sid |-> 0] }
    \cup { [kind |-> "signed", sid |-> n] : n \in SIDs }

\* Identifiers a new session can take: not in the store, and not the one the
\* request's cookie names.
FreeSIDs(cookieId) == SIDs \ (store \cup {cookieId})

\* A request arrives.  (The guard keeps the identifiers within SIDs.)
Receive ==
    /\ pc = "idle"
    /\ \E m \in Methods, p \in ReqPaths, o \in {Absent} \cup {Present(x) : x \in Origins},
          c \in Cookies, proto \in {"http", "https"} :
          /\ FreeSIDs(c.sid) # {}
          /\ req' = [method |-> m, path |-> p, origin |-> o, cookie |-> c,
                     proto |-> proto]
    /\ pc' = "json"
    /\ UNCHANGED <<env, dbState, store, sess, res, outbound, upstream, fault>>

\* The response has gone out; the server waits for the next request.
Finish ==
    /\ pc = "done"
    /\ pc' = "idle"
    /\ req' = NoReq
    /\ sess' = NoSess
    /\ res' = NoRes
    /\ outbound' = 0
    /\ upstream' = NoUpstream
    /\ fault' = Absent
    /\ UNCHANGED <<env, dbState, store>>

\* express.json() / express.urlencoded(): a body that does not parse is
\* passed to the error handler.
BodyParser ==
    /\ pc = "json"
    /\ \E badBody \in BOOLEAN :
          IF badBody
          THEN /\ fault' = Present("Unexpected token in JSON")
               /\ pc' = "error"
          ELSE /\ fault' = fault
               /\ pc' = IF CorsInstalled THEN "cors" ELSE "session"
    /\ UNCHANGED <<env, dbState, store, req, sess, res, outbound, upstream>>

\* cors(corsOptions): with origin false the middleware does nothing; with a
\* list it writes the allow-origin header for an allowed origin and answers
\* a preflight itself.
Cors ==
    /\ pc = "cors"
    /\ IF CorsOrigin.kind = "false"
       THEN /\ pc' = "session"
            /\ UNCHANGED <<res, store>>
       ELSE LET h == AllowOriginHeader(req.origin, CorsOrigin)
            IN  IF req.method = "OPTIONS"
                THEN /\ res' = [res EXCEPT !.acao = h, !.status = 204, !.sent = @ + 1]
                     /\ pc' = "done"
                     /\ UNCHANGED store
                ELSE /\ res' = [res EXCEPT !.acao = h]
                     /\ pc' = "session"
                     /\ UNCHANGED store
    /\ UNCHANGED <<env, dbState, req, sess, outbound, upstream, fault>>

\* store.generate(req): a new session with a fresh identifier.
Generate(cookieId) ==
    [exists |-> TRUE,
     id |-> CHOOSE n \in FreeSIDs(cookieId) : \A k \in FreeSIDs(cookieId) : n <= k,
     cookieId |-> cookieId, modified |-> FALSE]

\* session(...): no session ID in the cookie generates a session; otherwise
\* the store is asked, and a store error is passed on as a fault.
Session ==
    /\ pc = "session"
    /\ LET cookieId == GetCookie(req)
       IN  IF cookieId = 0
           THEN /\ sess' = Generate(0)
                /\ fault' = fault
                /\ pc' = "route"
           ELSE IF dbState # "connected"
           THEN /\ sess' = [sess EXCEPT !.cookieId = cookieId]
                /\ fault' = Present("MongoServerSelectionError")
                /\ pc' = "error"
           ELSE IF cookieId \in store
           THEN /\ sess' = [exists |-> TRUE, id |-> cookieId, cookieId |-> cookieId,
                            modified |-> FALSE]
                /\ fault' = fault
                /\ pc' = "route"
           ELSE /\ sess' = Generate(cookieId)
                /\ fault' = fault
                /\ pc' = "route"
    /\ UNCHANGED <<env, dbState, store, req, res, outbound, upstream>>

\* One of the mounted routers (routes/auth, sessions, onboarding,
\* leaderboard, progress): it may write to the session, and then answers or
\* throws.
Collaborator ==
    /\ pc = "route"
    /\ Dispatch(req.method, req.path) = "collaborator"
    /\ \E write \in BOOLEAN, throws \in BOOLEAN :
          LET s2 == [sess EXCEPT !.modified = write]
          IN  /\ sess' = s2
              /\ IF throws
                 THEN /\ fault' = Present("boom")
                      /\ pc' = "error"
                      /\ UNCHANGED <<res, store>>
                 ELSE /\ fault' = fault
                      /\ Respond(s2, 200, JsonBody("", "", ""))
    /\ UNCHANGED <<env, dbState, req, outbound, upstream>>

\* app.get('/api/weather'), up to the await of fetch: without a key the
\* handler answers at once, otherwise one outbound call is issued.
WeatherRequest ==
    /\ pc = "route"
    /\ Dispatch(req.method, req.path) = "weather"
    /\ IF ApiKeyMissing
       THEN /\ Respond(sess, 500, JsonBody("Weather API key not configured", "", ""))
            /\ outbound' = outbound
       ELSE /\ outbound' = outbound + 1
            /\ pc' = "fetch"
            /\ UNCHANGED <<res, store>>
    /\ UNCHANGED <<env, dbState, req, sess, upstream, fault>>

\* app.get('/api/weather'), from the point fetch settles: a rejected call,
\* a status that is not ok and a body that does not parse all end in the
\* catch block; otherwise the parsed body is sent with res.json.
WeatherSettle ==
    /\ pc = "fetch"
    /\ \E u \in UpstreamResults :
          /\ upstream' = u
          /\ IF u.outcome = "reject" \/ ~ResponseOk(u.status)
             THEN Respond(sess, 500, WeatherFailure)
             ELSE LET data == JSONparse(u.body)
                  IN  IF data = SyntaxError
                      THEN Respond(sess, 500, WeatherFailure)
                      ELSE Respond(sess, 200, TextBody(RelayBody(data)))
    /\ UNCHANGED <<env, dbState, req, sess, outbound, fault>>

\* app.get('/api/health')
Health ==
    /\ pc = "route"
    /\ Dispatch(req.method, req.path) = "health"
    /\ Respond(sess, 200, JsonBody("", "TimeTide API is running", "OK"))
    /\ UNCHANGED <<env, dbState, req, sess, outbound, upstream, fault>>

\* app.get('*')
NotFound ==
    /\ pc = "route"
    /\ Dispatch(req.method, req.path) = "notfound"
    /\ Respond(sess, 404, JsonBody("Route not found",
                 "This is the API server. React app should be running on port 3001.", ""))
    /\ UNCHANGED <<env, dbState, req, sess, outbound, upstream, fault>>

\* No route took the request: the framework answers OPTIONS with the
\* methods of the routes matching the path (GET, HEAD from app.get('*')),
\* and anything else with its own 404 page.
FinalHandler ==
    /\ pc = "route"
    /\ Dispatch(req.method, req.path) = "final"
    /\ IF req.method = "OPTIONS"
       THEN Respond(sess, 200, HtmlBody("GET,HEAD"))
       ELSE Respond(sess, 404, HtmlBody("Cannot " \o req.method))
    /\ UNCHANGED <<env, dbState, req, sess, outbound, upstream, fault>>

\* message: process.env.NODE_ENV === 'development' ? err.message : 'Something went wrong'
ErrorMessage(err) ==
    IF env.NODE_ENV = Present("development") THEN err[1] ELSE "Something went wrong"

\* app.use((err, req, res, next) => ...)
ErrorHandler ==
    /\ pc = "error"
    /\ Respond(sess, 500, JsonBody("Internal server error", ErrorMessage(fault), ""))
    /\ UNCHANGED <<env, dbState, req, sess, outbound, upstream, fault>>

Next ==
    \/ DbConnected
    \/ DbError
    \/ Expire
    \/ Receive
    \/ Finish
    \/ BodyParser
    \/ Cors
    \/ Session
    \/ Collaborator
    \/ WeatherRequest
    \/ WeatherSettle
    \/ Health
    \/ NotFound
    \/ FinalHandler
    \/ ErrorHandler

Spec == Init /\ [][Next]_vars

SpecTls == InitTls /\ [][Next]_vars

-----------------------------------------------------------------------------
(* Properties.                                                             *)

Answered == pc = "done"

WeatherPath == <<"api", "weather">>

HealthPath == <<"api", "health">>

Production == env.NODE_ENV = Present("production")

\* The request came without a session cookie the server accepts: no cookie,
\* a cookie whose signature fails, or a signed one naming no stored session
\* (the middleware then generated a session under another identifier).
WithoutValidCookie ==
    \/ req.cookie.kind \in {"none", "badsig"}
    \/ sess.exists /\ sess.id # sess.cookieId

\* The body parser raised no fault for the request in hand.
BodyParsed == fault # Present("Unexpected token in JSON")

(* C1, as stated: every answered request that arrived without a valid      *)
(* session cookie carries a Set-Cookie with a new session identifier,      *)
(* whether or not the handler wrote to the session.                        *)
C1_AlwaysSetCookie ==
    (Answered /\ req.method = "GET" /\ BodyParsed /\ WithoutValidCookie)
        => res.setCookie # Absent

(* C1, amended: an answered request that arrived without a valid session   *)
(* cookie carries Set-Cookie exactly when a session was generated for it,  *)
(* the handler wrote to that session and, in production, the request is    *)
(* secure; the cookie then names the generated identifier, which is not    *)
(* the one the request presented.                                          *)
C1_SetCookieWhenWritten ==
    (Answered /\ WithoutValidCookie)
        => /\ res.setCookie # Absent
                <=> /\ sess.exists
                    /\ sess.modified
                    /\ (Production => req.proto = "https")
           /\ res.setCookie # Absent
                => /\ res.setCookie[1].sid = sess.id
                   /\ res.setCookie[1].sid \in SIDs
                   /\ res.setCookie[1].sid # req.cookie.sid

\* A cookie-less request whose handler wrote to the session got its cookie.
C1_Witness ==
    /\ Answered
    /\ req.cookie.kind = "none"
    /\ sess.modified
    /\ res.setCookie # Absent
    /\ res.status = 200

(* C2, as stated: GET /api/health is answered 200 with status "OK" in      *)
(* every database state, also when the request carries a session cookie    *)
(* that the session middleware looks up in the store.                      *)
C2_HealthAlwaysOk ==
    (Answered /\ req.method = "GET" /\ req.path = HealthPath /\ BodyParsed)
        => res.status = 200 /\ res.body.status = "OK"

(* C3: while a GET /api/weather request is handled with no weather key     *)
(* set (unset or empty), no outbound request is issued, and the answer is  *)
(* one response of status 500 with an error field.                         *)
C3_NoKeyNoOutbound ==
    (req.method = "GET" /\ req.path = WeatherPath
        /\ env.OPENWEATHER_API_KEY \in {Absent, Present("")})
        => /\ outbound = 0
           /\ pc # "fetch"
           /\ Answered => res.status = 500 /\ res.body.error # "" /\ res.sent = 1

\* The weather handler itself refused a request for want of a key.
C3_Witness ==
    /\ Answered
    /\ req.method = "GET" /\ req.path = WeatherPath
    /\ env.OPENWEATHER_API_KEY = Absent
    /\ res.status = 500
    /\ res.body.error = "Weather API key not configured"
    /\ outbound = 0

\* The outbound call came back with a success status and a JSON body.
UpstreamSucceeded ==
    /\ upstream.outcome = "response"
    /\ upstream.status \in 200 .. 299
    /\ JSONparse(upstream.body) # SyntaxError

\* The outbound call was made and failed: rejected, a status outside
\* 200..299, or a body that is not JSON.
UpstreamFailed ==
    \/ upstream.outcome = "reject"
    \/ /\ upstream.outcome = "response"
       /\ \/ upstream.status \notin 200 .. 299
          \/ JSONparse(upstream.body) = SyntaxError

RECURSIVE MemberCount(_)
RECURSIVE MemberCountFrom(_, _)
\* The number of object members in a JSON value, nested ones included.
MemberCount(v) == IF v.t = "obj" THEN MemberCountFrom(v.m, 1) ELSE 0

MemberCountFrom(m, i) ==
    IF i > Len(m) THEN 0 ELSE 1 + MemberCount(m[i].v) + MemberCountFrom(m, i + 1)

\* A JSON text in compact form: no whitespace between lexemes, every number
\* written in its shortest form and within the range of a double, no key
\* repeated within an object.
IsCompact(text) ==
    /\ \A i \in 1 .. Len(text) :
          /\ text[i] # Whitespace
          /\ text[i] \in NumberLexemes => text[i] \in {"0", "1", "21.5"}
    /\ Cardinality({i \in 1 .. Len(text) : text[i] = ":"}) = MemberCount(JSONparse(text))

C5_UniformFailure ==
    /\ outbound <= 1
    /\ upstream.outcome # "none" => outbound = 1
    /\ (Answered /\ UpstreamFailed)
        => /\ res.status = 500
           /\ res.body = [kind |-> "json", error |-> "Failed to fetch weather data",
                           message |-> "", status |-> "", text |-> <<>>]
           /\ res.sent = 1
           /\ outbound = 1

\* An upstream 404 with a JSON body was turned into the uniform failure.
C5_Witness ==
    /\ Answered
    /\ upstream.outcome = "response"
    /\ upstream.status = 404
    /\ JSONparse(upstream.body) # SyntaxError
    /\ res.status = 500
    /\ res.body.error = "Failed to fetch weather data"

(* C6, as stated: a request whose path is under no mounted prefix and is   *)
(* neither /api/weather nor /api/health is answered 404 with the JSON      *)
(* body {error: "Route not found", message}, whatever its method.  (Stated *)
(* for requests that raise no fault and are not OPTIONS requests.)         *)
C6_NotFoundForEveryMethod ==
    (Answered /\ fault = Absent /\ req.method # "OPTIONS"
        /\ ~IsMounted(req.path) /\ req.path \notin {WeatherPath, HealthPath})
        => /\ res.status = 404
           /\ res.body.kind = "json"
           /\ res.body.error = "Route not found"

(* C7, as stated: the error handler answers 500 "Internal server error"    *)
(* and gives the fault's own message exactly when the mode is not          *)
(* production, the mode of an unset NODE_ENV being development.            *)
C7_MessageOutsideProduction ==
    (Answered /\ fault # Absent /\ env.NODE_ENV # Present("test"))
        => /\ res.status = 500
           /\ res.body.error = "Internal server error"
           /\ res.body.message = IF Production THEN "Something went wrong" ELSE fault[1]

\* The origins FRONTEND_ORIGIN lists: its comma-separated entries, trimmed.
ListedOrigins ==
    IF env.FRONTEND_ORIGIN = Absent THEN {}
    ELSE LET parts == Split(env.FRONTEND_ORIGIN[1], ",")
         IN  { Trim(parts[i]) : i \in 1 .. Len(parts) }

C9_CookieAttributes ==
    res.setCookie # Absent
        => /\ res.setCookie[1].secure <=> Production
           /\ res.setCookie[1].sameSite = IF Production THEN "none" ELSE "lax"
           /\ res.setCookie[1].maxAge = 86400000

\* A cookie set with NODE_ENV unset.
C9_Witness ==
    /\ res.setCookie # Absent
    /\ env.NODE_ENV = Absent
    /\ res.setCookie[1].sameSite = "lax"

(* C10, as stated: in production the options of the database connection   *)
(* and of the session store never have tlsAllowInvalidCertificates or      *)
(* tlsAllowInvalidHostnames set, whatever the two TLS variables hold.      *)
C10_NoRelaxedTlsInProduction ==
    (Production /\ dbState = "connected")
        => /\ ~connectOptions.tlsAllowInvalidCertificates
           /\ ~connectOptions.tlsAllowInvalidHostnames
           /\ ~storeMongoOptions.tlsAllowInvalidCertificates
           /\ ~storeMongoOptions.tlsAllowInvalidHostnames

====
